---------------------------- MODULE Spec2Model ----------------------------
(***************************************************************************)
(* Half-duplex push-to-talk client (src/src/main.cpp).                     *)
(*                                                                         *)
(* The program is single threaded: loop() runs its phases in the order of  *)
(* the source and webSocketEvent() is called from inside webSocket.loop(). *)
(* pc is the position inside loop():                                       *)
(*   "net"    lines 359-378  WiFi status, webSocket.loop(), reconnects     *)
(*   "serial" lines 384-400  serial command                                *)
(*   "dbg"    lines 402-405  test-transmission timer                       *)
(*   "spk"    lines 407-417  speaker silence timeout                       *)
(*   "button" lines 419-453  button edges                                  *)
(*   "audio"  lines 455-460  transmitAudio() and delay()                   *)
(* sent, i2sOps and binSent hold what the most recent step handed to       *)
(* webSocket.sendTXT, to the I2S driver and to webSocket.sendBIN.          *)
(***************************************************************************)
EXTENDS Integers, Sequences, FiniteSets, TLC

VARIABLES
    isConnected,        \* main.cpp:10
    isTransmitting,     \* main.cpp:11
    buttonPressed,      \* main.cpp:12
    isSpeakerMode,      \* main.cpp:13
    debugTransmitting,  \* main.cpp:16
    debugTransmitStart, \* main.cpp:17
    lastAudioReceived,  \* main.cpp:21
    lastReconnect,      \* main.cpp:365 (static)
    lastWiFiReconnect,  \* main.cpp:373 (static)
    now,                \* millis()
    wifiUp,             \* WiFi.status() == WL_CONNECTED as read at line 360
    pc,                 \* position inside loop()
    wsEvent,            \* the transport event handled by this iteration's webSocket.loop()
    cmd,                \* the serial command read by the most recent step
    sent,               \* messages handed to webSocket.sendTXT by the most recent step
    i2sOps,             \* I2S driver calls made by the most recent step
    binSent,            \* bytes handed to webSocket.sendBIN by the most recent step
    micSample,          \* a sample of audioBuffer as i2s_read left it in the most recent step
    binSample,          \* the same sample as handed to webSocket.sendBIN
    lastCtl,            \* the last start_/end_transmission handed to sendTXT
    interrupted         \* a disconnect was reported during the local transmission in progress

vars == <<isConnected, isTransmitting, buttonPressed, isSpeakerMode,
          debugTransmitting, debugTransmitStart, lastAudioReceived,
          lastReconnect, lastWiFiReconnect, now, wifiUp, pc, wsEvent, cmd,
          sent, i2sOps, binSent, micSample, binSample, lastCtl, interrupted>>

---------------------------------------------------------------------------
(* Program constants *)

DEBUG_TRANSMIT_DURATION == 3000
SPEAKER_TIMEOUT_MS == 300
RECONNECT_DELAY == 5000
AUDIO_BUFFER_SIZE == 512
FLUSH_WRITES == 4
AUDIO_GAIN == 8
INT16_MAX == 32767
INT16_MIN == -32768
SETUP_DELAY == 1000
LOOP_DELAY == 10

(* Bounds of the model *)

\* longest inbound binary payload, in bytes
MaxLen == 2
\* the last instant at which a loop iteration is observed
MaxTime == 6011

\* millis() at the start of the observed loop iterations: the first one right
\* after setup(), the second one a delay(10) later, and the later ones so that
\* every timer of the program is seen just below, at and just above its
\* threshold (299/300/301, 2999/3000 and 5000/5001 ms after the second).
TimePoints ==
    { t \in {SETUP_DELAY} \cup
             { SETUP_DELAY + LOOP_DELAY + d :
                   d \in { 0,
                           SPEAKER_TIMEOUT_MS - 1,
                           SPEAKER_TIMEOUT_MS,
                           SPEAKER_TIMEOUT_MS + 1,
                           DEBUG_TRANSMIT_DURATION - 1,
                           DEBUG_TRANSMIT_DURATION,
                           RECONNECT_DELAY,
                           RECONNECT_DELAY + 1 } } : t <= MaxTime }

NoMsg == << >>
NoOps == << >>
NoEvent == [type |-> "NONE", len |-> 0]
NoCtl == [type |-> "none", debug |-> FALSE]

---------------------------------------------------------------------------
(* Helpers *)

\* millis() - since.  Every stored timestamp is an earlier reading of
\* millis() (or the initial 0), and the modelled uptime stays far below the
\* 2^32 ms at which the unsigned long counter wraps, so the unsigned
\* difference is the plain one.
Elapsed(since) == now - since

\* webSocket.sendTXT of a control message; conn is isConnected at the call
Msg(type, debug) == [type |-> type, debug |-> debug, conn |-> isConnected]

IsCtl(m) == m.type \in {"start_transmission", "end_transmission"}

\* the step hands msgs to sendTXT
Send(msgs) ==
    /\ sent' = msgs
    /\ lastCtl' = IF msgs # NoMsg /\ IsCtl(msgs[1])
                  THEN [type |-> msgs[1].type, debug |-> msgs[1].debug]
                  ELSE lastCtl

\* flushSpeakerWithSilence(): silence writes, then zero the DMA buffer
flushSpeakerWithSilence ==
    [i \in 1..FLUSH_WRITES |-> "i2s_write_silence"] \o <<"i2s_zero_dma_buffer">>

\* mutant of switchToMicMode: the playback path is not drained
switchToMicMode_NoFlush(spk) ==
    IF ~spk
    THEN [spk |-> spk, ops |-> NoOps]
    ELSE [spk |-> FALSE,
          ops |-> <<"i2s_driver_uninstall", "i2s_driver_install_mic",
                    "i2s_set_pin", "i2s_set_clk">>]

\* switchToMicMode() called with isSpeakerMode = spk
switchToMicMode(spk) ==
    IF ~spk
    THEN [spk |-> spk, ops |-> NoOps]
    ELSE [spk |-> FALSE,
          ops |-> flushSpeakerWithSilence \o
                  <<"i2s_driver_uninstall", "i2s_driver_install_mic",
                    "i2s_set_pin", "i2s_set_clk">>]

\* mutant of switchToSpeakerMode: the early return is missing
switchToSpeakerMode_NoReturn(spk) ==
    [spk |-> TRUE,
     ops |-> <<"i2s_driver_uninstall", "i2s_driver_install_spk",
               "i2s_set_pin", "i2s_set_clk">>]

\* switchToSpeakerMode() called with isSpeakerMode = spk
switchToSpeakerMode(spk) ==
    IF spk
    THEN [spk |-> spk, ops |-> NoOps]
    ELSE [spk |-> TRUE,
          ops |-> <<"i2s_driver_uninstall", "i2s_driver_install_spk",
                    "i2s_set_pin", "i2s_set_clk">>]

\* the step captures and sends no audio
NoAudioSent == binSent' = 0 /\ micSample' = 0 /\ binSample' = 0

\* the values of int16_t, and the conversion of an int32_t to it (line 267)
Int16 == INT16_MIN..INT16_MAX

ToInt16(x) == ((x - INT16_MIN) % (INT16_MAX - INT16_MIN + 1)) + INT16_MIN

\* mutant of applyGain: the product is not clipped before the conversion
applyGain_NoClip(s) == ToInt16(s * AUDIO_GAIN)

\* transmitAudio(), lines 263-267: the gain stage for one sample
applyGain(s) ==
    LET amplified == s * AUDIO_GAIN
        clippedHigh == IF amplified > INT16_MAX THEN INT16_MAX ELSE amplified
        clipped == IF clippedHigh < INT16_MIN THEN INT16_MIN ELSE clippedHigh
    IN  ToInt16(clipped)


Init ==
    /\ isConnected = FALSE
    /\ isTransmitting = FALSE
    /\ buttonPressed = FALSE
    /\ isSpeakerMode = FALSE
    /\ debugTransmitting = FALSE
    /\ debugTransmitStart = 0
    /\ lastAudioReceived = 0
    /\ lastReconnect = 0
    /\ lastWiFiReconnect = 0
    /\ now = SETUP_DELAY
    /\ wifiUp \in BOOLEAN
    /\ pc = "net"
    /\ wsEvent = NoEvent
    /\ cmd = "none"
    /\ sent = NoMsg
    /\ i2sOps = NoOps
    /\ binSent = 0
    /\ micSample = 0
    /\ binSample = 0
    /\ lastCtl = NoCtl
    /\ interrupted = FALSE


---------------------------------------------------------------------------
(* loop(), lines 359-378: network phase *)

\* mutant of SessionReconnectDue: the session reconnect is not paced
SessionReconnectDue_Unpaced(conn) == ~conn

\* lines 363-370: session reconnect, paced by RECONNECT_DELAY; conn is
\* isConnected after webSocket.loop() returned
SessionReconnectDue(conn) ==
    ~conn /\ Elapsed(lastReconnect) > RECONNECT_DELAY

SessionReconnect(conn) ==
    lastReconnect' = IF SessionReconnectDue(conn) THEN now ELSE lastReconnect

\* lines 372-377: re-association, paced by RECONNECT_DELAY
WiFiReconnectDue == Elapsed(lastWiFiReconnect) > RECONNECT_DELAY

\* mutants of PlayAllowed: frames are played whatever the local state; the
\* test transmission is forgotten in the guard
PlayAllowed_Always == TRUE

PlayAllowed_NoDebug == ~isTransmitting

\* WStype_BIN, line 200: play only while no local transmission is active
PlayAllowed == ~isTransmitting /\ ~debugTransmitting

\* what every step of the network phase with the association up shares
NetUp(ev) ==
    /\ pc = "net"
    /\ pc' = "serial"
    /\ wifiUp' = TRUE
    /\ wsEvent' = ev
    /\ cmd' = "none"
    /\ NoAudioSent
    /\ UNCHANGED <<isTransmitting, buttonPressed, debugTransmitting,
                   debugTransmitStart, lastWiFiReconnect, now>>

\* webSocket.loop() delivers no event
WsNone ==
    /\ NetUp(NoEvent)
    /\ SessionReconnect(isConnected)
    /\ Send(NoMsg)
    /\ i2sOps' = NoOps
    /\ UNCHANGED <<isConnected, isSpeakerMode, lastAudioReceived, interrupted>>

\* webSocketEvent(WStype_DISCONNECTED), lines 171-175
WsDisconnected ==
    /\ NetUp([type |-> "DISCONNECTED", len |-> 0])
    /\ isConnected' = FALSE
    /\ SessionReconnect(FALSE)
    /\ Send(NoMsg)
    /\ i2sOps' = NoOps
    /\ interrupted' = (interrupted \/ isTransmitting \/ debugTransmitting)
    /\ UNCHANGED <<isSpeakerMode, lastAudioReceived>>

\* mutant of WsConnected: the registration message is not sent
WsConnected_NoRegister ==
    /\ ~isConnected
    /\ NetUp([type |-> "CONNECTED", len |-> 0])
    /\ isConnected' = TRUE
    /\ SessionReconnect(TRUE)
    /\ Send(NoMsg)
    /\ i2sOps' = NoOps
    /\ UNCHANGED <<isSpeakerMode, lastAudioReceived, interrupted>>

\* webSocketEvent(WStype_CONNECTED), lines 177-192; the transport completes
\* a handshake only while it is not connected
WsConnected ==
    /\ ~isConnected
    /\ NetUp([type |-> "CONNECTED", len |-> 0])
    /\ isConnected' = TRUE
    /\ SessionReconnect(TRUE)
    /\ Send(<<[type |-> "register", debug |-> FALSE, conn |-> TRUE]>>)
    /\ i2sOps' = NoOps
    /\ UNCHANGED <<isSpeakerMode, lastAudioReceived, interrupted>>

\* webSocketEvent(WStype_TEXT / ERROR / PING / PONG), lines 194-196, 217-223
WsOther ==
    /\ isConnected
    /\ \E t \in {"TEXT", "ERROR", "PING", "PONG"} :
          NetUp([type |-> t, len |-> 0])
    /\ SessionReconnect(isConnected)
    /\ Send(NoMsg)
    /\ i2sOps' = NoOps
    /\ UNCHANGED <<isConnected, isSpeakerMode, lastAudioReceived, interrupted>>

\* webSocketEvent(WStype_BIN, payload, length), lines 198-215
WsBin ==
    /\ isConnected
    /\ \E length \in 0..MaxLen :
          /\ NetUp([type |-> "BIN", len |-> length])
          /\ IF PlayAllowed
             THEN LET sw == switchToSpeakerMode(isSpeakerMode) IN
                  /\ isSpeakerMode' = sw.spk
                  /\ i2sOps' = sw.ops \o <<"i2s_write_payload">>
                  /\ lastAudioReceived' = now
             ELSE /\ i2sOps' = NoOps
                  /\ UNCHANGED <<isSpeakerMode, lastAudioReceived>>
    /\ SessionReconnect(isConnected)
    /\ Send(NoMsg)
    /\ UNCHANGED <<isConnected, interrupted>>

\* WiFi.status() != WL_CONNECTED, lines 371-378: webSocket.loop() is not
\* called; when due, connectWiFi() (lines 126-167) blocks while it tries the
\* networks, and lastWiFiReconnect is millis() at its return
WiFiDownAt(points) ==
    /\ pc = "net"
    /\ pc' = "serial"
    /\ wifiUp' = FALSE
    /\ wsEvent' = NoEvent
    /\ cmd' = "none"
    /\ NoAudioSent
    /\ IF WiFiReconnectDue
       THEN /\ \E t \in points : t >= now /\ now' = t
            /\ lastWiFiReconnect' = now'
       ELSE UNCHANGED <<now, lastWiFiReconnect>>
    /\ Send(NoMsg)
    /\ i2sOps' = NoOps
    /\ UNCHANGED <<isConnected, isTransmitting, buttonPressed, isSpeakerMode,
                   debugTransmitting, debugTransmitStart, lastAudioReceived,
                   lastReconnect, interrupted>>

WiFiDown == WiFiDownAt(TimePoints)


---------------------------------------------------------------------------
(* loop(), lines 384-400: serial commands *)

\* mutant of DebugStartAllowed: the button transmission is not looked at
DebugStartAllowed_IgnoresButton == isConnected /\ ~debugTransmitting

\* startDebugTransmission(), lines 316-323: the two early returns
DebugStartAllowed == isConnected /\ ~(debugTransmitting \/ isTransmitting)

\* what every step of the serial phase shares
SerialStep(c) ==
    /\ pc = "serial"
    /\ pc' = "dbg"
    /\ cmd' = c
    /\ NoAudioSent
    /\ UNCHANGED <<isConnected, isTransmitting, buttonPressed, lastAudioReceived,
                   lastReconnect, lastWiFiReconnect, now, wifiUp, wsEvent>>

\* Serial.available() is false, or the character is '?' or any other one
SerialIdle ==
    /\ \E c \in {"none", "?"} : SerialStep(c)
    /\ Send(NoMsg)
    /\ i2sOps' = NoOps
    /\ UNCHANGED <<isSpeakerMode, debugTransmitting, debugTransmitStart, interrupted>>

\* 'T' / 't': startDebugTransmission(), lines 315-338
CmdStart ==
    /\ SerialStep("T")
    /\ IF DebugStartAllowed
       THEN LET sw == switchToMicMode(isSpeakerMode) IN
            /\ debugTransmitting' = TRUE
            /\ debugTransmitStart' = now
            /\ isSpeakerMode' = sw.spk
            /\ i2sOps' = sw.ops
            /\ Send(<<Msg("start_transmission", TRUE)>>)
            /\ interrupted' = FALSE
       ELSE /\ Send(NoMsg)
            /\ i2sOps' = NoOps
            /\ UNCHANGED <<isSpeakerMode, debugTransmitting, debugTransmitStart,
                           interrupted>>

\* stopDebugTransmission(), lines 340-354
stopDebugTransmission ==
    IF debugTransmitting
    THEN /\ debugTransmitting' = FALSE
         /\ Send(<<Msg("end_transmission", TRUE)>>)
         /\ interrupted' = FALSE
    ELSE /\ Send(NoMsg)
         /\ UNCHANGED <<debugTransmitting, interrupted>>

\* 'S' / 's': stopDebugTransmission()
CmdStop ==
    /\ SerialStep("S")
    /\ stopDebugTransmission
    /\ i2sOps' = NoOps
    /\ UNCHANGED <<isSpeakerMode, debugTransmitStart>>

---------------------------------------------------------------------------
(* loop(), lines 402-417: timers *)

\* mutant of DebugTimedOut: > in place of >=
DebugTimedOut_Late ==
    debugTransmitting /\ Elapsed(debugTransmitStart) > DEBUG_TRANSMIT_DURATION

\* line 403
DebugTimedOut ==
    debugTransmitting /\ Elapsed(debugTransmitStart) >= DEBUG_TRANSMIT_DURATION

\* lines 402-405
DebugTimeout ==
    /\ pc = "dbg"
    /\ pc' = "spk"
    /\ IF DebugTimedOut
       THEN stopDebugTransmission
       ELSE /\ Send(NoMsg)
            /\ UNCHANGED <<debugTransmitting, interrupted>>
    /\ cmd' = "none"
    /\ i2sOps' = NoOps
    /\ NoAudioSent
    /\ UNCHANGED <<isConnected, isTransmitting, buttonPressed, isSpeakerMode,
                   debugTransmitStart, lastAudioReceived, lastReconnect,
                   lastWiFiReconnect, now, wifiUp, wsEvent>>

\* mutant of SpeakerTimedOut: >= in place of >
SpeakerTimedOut_AtLimit ==
    /\ isSpeakerMode /\ ~isTransmitting /\ ~debugTransmitting
    /\ lastAudioReceived > 0
    /\ Elapsed(lastAudioReceived) >= SPEAKER_TIMEOUT_MS

\* lines 410-411
SpeakerTimedOut ==
    /\ isSpeakerMode /\ ~isTransmitting /\ ~debugTransmitting
    /\ lastAudioReceived > 0
    /\ Elapsed(lastAudioReceived) > SPEAKER_TIMEOUT_MS

\* lines 407-417
SpeakerTimeout ==
    /\ pc = "spk"
    /\ pc' = "button"
    /\ IF SpeakerTimedOut
       THEN LET sw == switchToMicMode(isSpeakerMode) IN
            /\ isSpeakerMode' = sw.spk
            /\ i2sOps' = sw.ops
            /\ lastAudioReceived' = 0
       ELSE /\ i2sOps' = NoOps
            /\ UNCHANGED <<isSpeakerMode, lastAudioReceived>>
    /\ Send(NoMsg)
    /\ cmd' = "none"
    /\ NoAudioSent
    /\ UNCHANGED <<isConnected, isTransmitting, buttonPressed, debugTransmitting,
                   debugTransmitStart, lastReconnect, lastWiFiReconnect, now,
                   wifiUp, wsEvent, interrupted>>

---------------------------------------------------------------------------
(* loop(), lines 419-453: button *)

\* mutant of ButtonDown: the level of the button in place of its edge
ButtonDown_Level(currentButtonState) == currentButtonState /\ ~isTransmitting

\* line 422
ButtonDown(currentButtonState) == currentButtonState /\ ~buttonPressed

\* line 438
ButtonUp(currentButtonState) == ~currentButtonState /\ buttonPressed

\* mutants of ButtonStartAllowed: a press is refused while the speaker is in
\* use; a press is accepted during a test transmission
ButtonStartAllowed_NotWhilePlaying ==
    isConnected /\ ~debugTransmitting /\ ~isSpeakerMode

ButtonStartAllowed_OverDebug == isConnected

\* line 425
ButtonStartAllowed == isConnected /\ ~debugTransmitting

ButtonPoll ==
    /\ pc = "button"
    /\ pc' = "audio"
    /\ \E currentButtonState \in BOOLEAN :
          IF ButtonDown(currentButtonState)
          THEN /\ buttonPressed' = TRUE
               /\ IF ButtonStartAllowed
                  THEN LET sw == switchToMicMode(isSpeakerMode) IN
                       /\ isTransmitting' = TRUE
                       /\ isSpeakerMode' = sw.spk
                       /\ i2sOps' = sw.ops
                       /\ Send(<<Msg("start_transmission", FALSE)>>)
                       /\ interrupted' = FALSE
                  ELSE /\ Send(NoMsg)
                       /\ i2sOps' = NoOps
                       /\ UNCHANGED <<isTransmitting, isSpeakerMode, interrupted>>
          ELSE IF ButtonUp(currentButtonState)
          THEN /\ buttonPressed' = FALSE
               /\ i2sOps' = NoOps
               /\ IF isTransmitting
                  THEN /\ isTransmitting' = FALSE
                       /\ Send(<<Msg("end_transmission", FALSE)>>)
                       /\ interrupted' = FALSE
                  ELSE /\ Send(NoMsg)
                       /\ UNCHANGED <<isTransmitting, interrupted>>
               /\ UNCHANGED isSpeakerMode
          ELSE /\ Send(NoMsg)
               /\ i2sOps' = NoOps
               /\ UNCHANGED <<buttonPressed, isTransmitting, isSpeakerMode,
                              interrupted>>
    /\ cmd' = "none"
    /\ NoAudioSent
    /\ UNCHANGED <<isConnected, debugTransmitting, debugTransmitStart,
                   lastAudioReceived, lastReconnect, lastWiFiReconnect, now,
                   wifiUp, wsEvent>>

---------------------------------------------------------------------------
(* loop(), lines 455-460: audio and pacing *)

\* mutant of TransmitGuard: the connection is not looked at
TransmitGuard_NoConn == isTransmitting \/ debugTransmitting

\* line 456
TransmitGuard == (isTransmitting \/ debugTransmitting) /\ isConnected

\* transmitAudio(), lines 253-274, for bytes_read bytes returned by i2s_read
\* with sample s in the buffer: what is handed to sendBIN
transmitAudio(bytes_read, s) ==
    IF bytes_read > 0
    THEN [bytes |-> bytes_read, sample |-> applyGain(s)]
    ELSE [bytes |-> 0, sample |-> 0]

\* the samples the microphone delivers in the session model
MicSamples == {-4096, 0, 4096}

\* lines 455-458: one capture/send cycle when transmitting, the microphone
\* delivering a sample of the set samples
TransmitAudioOn(samples) ==
    IF TransmitGuard
    THEN \E bytes_read \in {0, 2 * AUDIO_BUFFER_SIZE} :
         \E s \in samples :
            LET out == transmitAudio(bytes_read, s) IN
            /\ binSent' = out.bytes
            /\ micSample' = IF bytes_read > 0 THEN s ELSE 0
            /\ binSample' = out.sample
            /\ i2sOps' = <<"i2s_read">>
    ELSE /\ NoAudioSent
         /\ i2sOps' = NoOps

\* lines 455-460 without their place in loop(): the capture/send cycle, then
\* delay(10); the next iteration starts at least LOOP_DELAY later, at one of
\* the instants points
AudioAndDelayBody(points) ==
    /\ pc' = "net"
    /\ TransmitAudioOn(MicSamples)
    /\ \E t \in points : t >= now + LOOP_DELAY /\ now' = t
    /\ Send(NoMsg)
    /\ cmd' = "none"
    /\ UNCHANGED <<isConnected, isTransmitting, buttonPressed, isSpeakerMode,
                   debugTransmitting, debugTransmitStart, lastAudioReceived,
                   lastReconnect, lastWiFiReconnect, wifiUp, wsEvent,
                   interrupted>>

\* mutant of AudioAndDelayAt: the capture/send cycle also runs in place of
\* the button phase
AudioAndDelayAt_BeforeButton(points) ==
    pc \in {"button", "audio"} /\ AudioAndDelayBody(points)

\* lines 455-460, the last phase of loop()
AudioAndDelayAt(points) == pc = "audio" /\ AudioAndDelayBody(points)

AudioAndDelay == AudioAndDelayAt(TimePoints)

---------------------------------------------------------------------------

Next ==
    \/ WsNone
    \/ WsDisconnected
    \/ WsConnected
    \/ WsOther
    \/ WsBin
    \/ WiFiDown
    \/ SerialIdle
    \/ CmdStart
    \/ CmdStop
    \/ DebugTimeout
    \/ SpeakerTimeout
    \/ ButtonPoll
    \/ AudioAndDelay

Spec == Init /\ [][Next]_vars

\* ------------------------------------------------------------------------
\* The retry loops over a longer time span: the same program, observed at the
\* instants around one and two reconnect delays after the first attempt that
\* loop() can make.
\* ------------------------------------------------------------------------
NetTimePoints ==
    {SETUP_DELAY, RECONNECT_DELAY, RECONNECT_DELAY + 1,
     2 * RECONNECT_DELAY + 1, 2 * RECONNECT_DELAY + 2}

WiFiDownNet == WiFiDownAt(NetTimePoints)

AudioAndDelayNet == AudioAndDelayAt(NetTimePoints)

NextNet ==
    \/ WsNone
    \/ WsDisconnected
    \/ WsConnected
    \/ WsOther
    \/ WsBin
    \/ WiFiDownNet
    \/ SerialIdle
    \/ CmdStart
    \/ CmdStop
    \/ DebugTimeout
    \/ SpeakerTimeout
    \/ ButtonPoll
    \/ AudioAndDelayNet

SpecNet == Init /\ [][NextNet]_vars

\* ------------------------------------------------------------------------
\* The gain stage on its own: loop() has reached line 455 of the iteration in
\* which the session was established and the button was found pressed, and
\* the microphone may deliver any 16-bit sample.
\* ------------------------------------------------------------------------
InitGain ==
    /\ isConnected = TRUE
    /\ isTransmitting = TRUE
    /\ buttonPressed = TRUE
    /\ isSpeakerMode = FALSE
    /\ debugTransmitting = FALSE
    /\ debugTransmitStart = 0
    /\ lastAudioReceived = 0
    /\ lastReconnect = 0
    /\ lastWiFiReconnect = 0
    /\ now = SETUP_DELAY
    /\ wifiUp = TRUE
    /\ pc = "audio"
    /\ wsEvent = [type |-> "CONNECTED", len |-> 0]
    /\ cmd = "none"
    /\ sent = <<[type |-> "start_transmission", debug |-> FALSE, conn |-> TRUE]>>
    /\ i2sOps = NoOps
    /\ binSent = 0
    /\ micSample = 0
    /\ binSample = 0
    /\ lastCtl = [type |-> "start_transmission", debug |-> FALSE]
    /\ interrupted = FALSE

\* lines 455-458: the capture/send cycle over every 16-bit sample; delay(10)
\* is left to be taken
GainStep ==
    /\ pc = "audio"
    /\ pc' = "delay"
    /\ TransmitAudioOn(Int16)
    /\ Send(NoMsg)
    /\ cmd' = "none"
    /\ UNCHANGED <<isConnected, isTransmitting, buttonPressed, isSpeakerMode,
                   debugTransmitting, debugTransmitStart, lastAudioReceived,
                   lastReconnect, lastWiFiReconnect, now, wifiUp, wsEvent,
                   interrupted>>

NextGain == GainStep

SpecGain == InitGain /\ [][NextGain]_vars


---------------------------------------------------------------------------
(* Vocabulary of the properties *)

\* a local transmission is active
LocalTransmit == isTransmitting \/ debugTransmitting

\* a remote transmission is being received: the audio path is in Playback and
\* the silence timeout since the last inbound frame has not elapsed
RemoteReceive ==
    /\ isSpeakerMode
    /\ lastAudioReceived > 0
    /\ Elapsed(lastAudioReceived) <= SPEAKER_TIMEOUT_MS

\* the steps that are a local transmit-request: a button-down edge, 'T'
ButtonDownEdge == pc = "button" /\ ~buttonPressed /\ buttonPressed'
TestTrigger == pc = "serial" /\ cmd' = "T"
TransmitRequest == ButtonDownEdge \/ TestTrigger

\* the step handles an inbound binary frame
BinFrame == pc = "net" /\ wsEvent'.type = "BIN"

StartSent == \E i \in DOMAIN sent : sent[i].type = "start_transmission"
EndSent == \E i \in DOMAIN sent : sent[i].type = "end_transmission"
\* an end_transmission handed to the transport while the session is connected
EndEmitted ==
    \E i \in DOMAIN sent : sent[i].type = "end_transmission" /\ sent[i].conn

Reconfigured ==
    \E i \in DOMAIN i2sOps :
        i2sOps[i] \in {"i2s_driver_uninstall", "i2s_driver_install_mic",
                       "i2s_driver_install_spk"}

---------------------------------------------------------------------------
(* C1 *)

\* C1: in every state (between the phases of loop(), hence between iterations
\* and after every transport callback) an active local transmission implies
\* that the audio interface is in Capture mode.
C1_TransmitImpliesCapture == LocalTransmit => ~isSpeakerMode

\* an inbound frame was handled while the button transmission was active
C1_Witness == isTransmitting /\ wsEvent.type = "BIN" /\ pc = "serial"

---------------------------------------------------------------------------
(* C2 *)

---------------------------------------------------------------------------
(* C3 *)

\* C3 as stated: at the end of a loop iteration whose webSocket.loop()
\* reported a disconnect, no local transmission is active and the audio path
\* is in Capture.
C3_DisconnectForcesIdle ==
    (pc = "net" /\ wsEvent.type = "DISCONNECTED") =>
        (~isTransmitting /\ ~debugTransmitting /\ ~isSpeakerMode)

---------------------------------------------------------------------------
(* C4 *)

\* C4 as stated: once a disconnect was reported during a local transmission,
\* no end_transmission is emitted for that transmission.
C4_NoEndAfterDisconnect == [][ interrupted => ~EndEmitted' ]_vars

---------------------------------------------------------------------------
(* C5 *)

\* C5: no audio frame is handed to sendBIN while the session is not connected.
C5_NoFrameUnlessConnected == binSent > 0 => isConnected

\* an iteration in which the disconnect was reported during a button
\* transmission has passed its audio phase
C5_Witness ==
    /\ pc = "net"
    /\ wsEvent.type = "DISCONNECTED"
    /\ isTransmitting
    /\ ~isConnected
    /\ binSent = 0

---------------------------------------------------------------------------
(* C6 *)

\* C6: the start_transmission and end_transmission messages handed to sendTXT
\* alternate, beginning with a start, and an end carries the debug flag of the
\* start it closes.
C6_StartEndAlternate ==
    [][ \A i \in DOMAIN sent' :
            /\ sent'[i].type = "start_transmission" =>
                   lastCtl.type \in {"none", "end_transmission"}
            /\ sent'[i].type = "end_transmission" =>
                   /\ lastCtl.type = "start_transmission"
                   /\ lastCtl.debug = sent'[i].debug ]_vars

\* a test transmission was closed while the button was held down
C6_Witness ==
    /\ EndSent
    /\ sent[1].debug
    /\ buttonPressed
    /\ lastCtl = [type |-> "end_transmission", debug |-> TRUE]


---------------------------------------------------------------------------
(* C7 *)

\* during remote receive an inbound frame is played and restarts the timer
C7_FramePlayed ==
    (BinFrame /\ RemoteReceive) =>
        /\ isSpeakerMode'
        /\ i2sOps' = <<"i2s_write_payload">>
        /\ lastAudioReceived' = now

\* the step switches the audio path from Playback to Capture
LeavesPlayback == isSpeakerMode /\ ~isSpeakerMode'

\* the timeout check of lines 410-411 is made more than SPEAKER_TIMEOUT_MS
\* after the last frame
TimeoutStep == pc = "spk" /\ Elapsed(lastAudioReceived) > SPEAKER_TIMEOUT_MS

\* the step starts a local transmission
LocalStart ==
    \/ ~isTransmitting /\ isTransmitting'
    \/ ~debugTransmitting /\ debugTransmitting'

---------------------------------------------------------------------------
(* C8 *)

\* C8: a binary frame arriving during a local transmission is discarded:
\* nothing is written to the audio interface, the path stays in Capture and
\* lastAudioReceived keeps its value.
C8_FrameDiscardedWhileTransmitting ==
    [][ (BinFrame /\ LocalTransmit) =>
            /\ i2sOps' = NoOps
            /\ ~isSpeakerMode /\ ~isSpeakerMode'
            /\ lastAudioReceived' = lastAudioReceived ]_vars

\* a frame of non-zero length was handled during a test transmission
C8_Witness ==
    /\ pc = "serial"
    /\ wsEvent.type = "BIN"
    /\ wsEvent.len > 0
    /\ debugTransmitting
    /\ i2sOps = NoOps

---------------------------------------------------------------------------
(* C9 *)

\* C9: a transmit-request made while the session is not connected starts
\* nothing and sends nothing, and it is not kept: a button transmission starts
\* only in the step of a button-down edge made while connected, a test
\* transmission only in the step of a 'T' read while connected.
C9_RequestDroppedWhenDisconnected ==
    [][ /\ (TransmitRequest /\ ~isConnected) =>
               /\ ~StartSent'
               /\ isTransmitting' = isTransmitting
               /\ debugTransmitting' = debugTransmitting
               /\ isSpeakerMode' = isSpeakerMode
               /\ i2sOps' = NoOps
        /\ (~isTransmitting /\ isTransmitting') =>
               (ButtonDownEdge /\ isConnected /\ StartSent')
        /\ (~debugTransmitting /\ debugTransmitting') =>
               (TestTrigger /\ isConnected /\ StartSent')
        /\ StartSent' => (TransmitRequest /\ isConnected) ]_vars

\* the button was pressed before any transmission was ever started, it is
\* still held in the iteration in which the session connected, and nothing
\* is being transmitted
C9_Witness ==
    /\ pc = "audio"
    /\ wsEvent.type = "CONNECTED"
    /\ isConnected
    /\ buttonPressed
    /\ ~isTransmitting
    /\ lastCtl = NoCtl

---------------------------------------------------------------------------
(* C10 *)

\* C10: switching to the mode already active reconfigures nothing, writes
\* nothing and changes nothing: a local transmission started in Capture makes
\* no driver call, a frame played in Playback makes no driver call but its
\* own write, and a second switch after a first one is a no-op.
C10_SwitchIdempotent ==
    [][ /\ (LocalStart /\ ~isSpeakerMode) =>
               (i2sOps' = NoOps /\ ~isSpeakerMode')
        /\ (BinFrame /\ isSpeakerMode /\ ~LocalTransmit) =>
               (i2sOps' = <<"i2s_write_payload">> /\ isSpeakerMode')
        /\ \A spk \in {isSpeakerMode, isSpeakerMode'} :
               /\ switchToMicMode(switchToMicMode(spk).spk) =
                      [spk |-> switchToMicMode(spk).spk, ops |-> NoOps]
               /\ switchToSpeakerMode(switchToSpeakerMode(spk).spk) =
                      [spk |-> switchToSpeakerMode(spk).spk, ops |-> NoOps]
      ]_vars

\* a second frame has been played with the path already in Playback
C10_Witness ==
    /\ pc = "serial"
    /\ wsEvent.type = "BIN"
    /\ isSpeakerMode
    /\ i2sOps = <<"i2s_write_payload">>
---------------------------------------------------------------------------
(* C11 *)

\* in ops, every installation of the capture configuration comes right after
\* four silence writes, the clearing of the DMA buffer and the uninstall, in
\* that order
DrainedBeforeCapture(ops) ==
    \A k \in DOMAIN ops :
        ops[k] = "i2s_driver_install_mic" =>
            /\ k >= 7
            /\ ops[k - 1] = "i2s_driver_uninstall"
            /\ ops[k - 2] = "i2s_zero_dma_buffer"
            /\ \A j \in 1..4 : ops[k - 2 - j] = "i2s_write_silence"

\* in ops, an installation of the playback configuration comes with no
\* silence write and no clearing of the DMA buffer
NoDrainBeforePlayback(ops) ==
    (\E k \in DOMAIN ops : ops[k] = "i2s_driver_install_spk") =>
        (\A k \in DOMAIN ops :
            ops[k] \notin {"i2s_write_silence", "i2s_zero_dma_buffer"})

\* C11: every reconfiguration from Playback to Capture is preceded, in order,
\* by four silence writes and the clearing of the DMA buffer, with nothing
\* else before the uninstall; a switch to Playback drains nothing.
C11_DrainBeforeCapture ==
    [][ /\ DrainedBeforeCapture(i2sOps')
        /\ NoDrainBeforePlayback(i2sOps')
        /\ (isSpeakerMode /\ ~isSpeakerMode') =>
               (\E k \in DOMAIN i2sOps' : i2sOps'[k] = "i2s_driver_install_mic")
        /\ (~isSpeakerMode /\ isSpeakerMode') =>
               (\E k \in DOMAIN i2sOps' : i2sOps'[k] = "i2s_driver_install_spk")
      ]_vars

\* the silence timeout has just reconfigured the interface to Capture
C11_Witness ==
    /\ pc = "button"
    /\ ~isSpeakerMode
    /\ lastAudioReceived = 0
    /\ \E k \in DOMAIN i2sOps : i2sOps[k] = "i2s_driver_install_mic"
---------------------------------------------------------------------------
(* C13 *)

RegisterSent == \E i \in DOMAIN sent : sent[i].type = "register"

\* C13: a register message is sent exactly in the steps in which the
\* transport reports the connection, which are the steps in which the
\* session becomes connected, and one message only.
C13_RegisterOncePerConnect ==
    [][ /\ RegisterSent' <=> (pc = "net" /\ wsEvent'.type = "CONNECTED")
        /\ RegisterSent' <=> (~isConnected /\ isConnected')
        /\ RegisterSent' => sent' = <<[type |-> "register", debug |-> FALSE,
                                       conn |-> TRUE]>> ]_vars

\* the session has connected again after a disconnect that cut a local
\* transmission
C13_Witness ==
    /\ RegisterSent
    /\ lastCtl.type = "start_transmission"
    /\ interrupted

---------------------------------------------------------------------------
(* C16 *)

\* C16 as stated: an empty inbound binary message, or one that is not a whole
\* number of 16-bit samples, changes neither the session state nor the mode
\* of the audio path.
C16_MalformedFrameDropped ==
    [][ (BinFrame /\ (wsEvent'.len = 0 \/ wsEvent'.len % 2 = 1)) =>
            /\ isSpeakerMode' = isSpeakerMode
            /\ isTransmitting' = isTransmitting
            /\ debugTransmitting' = debugTransmitting ]_vars

---------------------------------------------------------------------------
(* C17 *)

\* the step has stopped the test transmission
DebugStopped ==
    /\ debugTransmitting
    /\ ~debugTransmitting'
    /\ sent' = <<[type |-> "end_transmission", debug |-> TRUE,
                  conn |-> isConnected]>>
    /\ ~isSpeakerMode'
    /\ i2sOps' = NoOps

DebugTimerStep == pc = "dbg" /\ debugTransmitting
StopCommand == pc = "serial" /\ cmd' = "S" /\ debugTransmitting

\* C17: a test transmission is stopped by the first timer check made at least
\* DEBUG_TRANSMIT_DURATION after its start, or earlier by 'S', and by nothing
\* else; it never outlives such a check; stopping it clears the flag, sends
\* one end_transmission with debug = true and leaves the path in Capture.
C17_DebugTransmissionEnds ==
    [][ /\ (DebugTimerStep /\ Elapsed(debugTransmitStart) >= DEBUG_TRANSMIT_DURATION)
               => DebugStopped
        /\ (DebugTimerStep /\ Elapsed(debugTransmitStart) < DEBUG_TRANSMIT_DURATION)
               => debugTransmitting'
        /\ StopCommand => DebugStopped
        /\ (debugTransmitting /\ ~debugTransmitting') =>
               /\ DebugStopped
               /\ \/ StopCommand
                  \/ DebugTimerStep /\ Elapsed(debugTransmitStart) >= DEBUG_TRANSMIT_DURATION
        /\ (debugTransmitting' /\ now' - debugTransmitStart' >= DEBUG_TRANSMIT_DURATION)
               => pc' \in {"net", "serial", "dbg"} ]_vars

\* the timer check made exactly DEBUG_TRANSMIT_DURATION after the start has
\* stopped the test transmission
C17_Witness ==
    /\ pc = "spk"
    /\ ~debugTransmitting
    /\ EndSent
    /\ sent[1].debug
    /\ Elapsed(debugTransmitStart) = DEBUG_TRANSMIT_DURATION

---------------------------------------------------------------------------
(* C18 *)

\* C18: the button transmission and the test transmission are never active
\* together, and the button transmission is active only while the button is
\* recorded as pressed.
C18_TransmissionsExclusive ==
    /\ ~(isTransmitting /\ debugTransmitting)
    /\ isTransmitting => buttonPressed

\* 'T' was read during a button transmission
C18_Witness == pc = "dbg" /\ cmd = "T" /\ isTransmitting

---------------------------------------------------------------------------
(* C19 *)

\* C19 as stated: an audio frame is handed to sendBIN only while the last
\* control message is a start_transmission sent on the present connection
\* (no disconnect was reported since it was sent).
C19_FrameOnlyAfterStart ==
    binSent > 0 => (lastCtl.type = "start_transmission" /\ ~interrupted)

---------------------------------------------------------------------------
(* C20 *)

\* C20 as stated: in an iteration that read the association as down, no audio
\* frame is captured and handed to sendBIN.
C20_NoFrameWhileWiFiDown == ~wifiUp => binSent = 0

\* ------------------------------------------------------------------------
\* C12: a captured sample s is sent as clamp(8 * s, -32768, 32767): a value
\* that depends on s alone, that saturates instead of wrapping around, and
\* that is the upper limit for s = 4096 and the lower limit for s = -4096.
\* ------------------------------------------------------------------------
Clamp(x, lo, hi) == IF x < lo THEN lo ELSE IF x > hi THEN hi ELSE x

C12_GainClamps ==
    binSent > 0 =>
        /\ binSample = Clamp(8 * micSample, -32768, 32767)
        /\ (micSample >= 4096 => binSample = 32767)
        /\ (micSample <= -4096 => binSample = -32768)

C12_Witness ==
    /\ pc = "delay"
    /\ binSent > 0
    /\ micSample = 4096
    /\ binSample = 32767

\* ------------------------------------------------------------------------
\* C15: within one loop iteration transport events are resolved first, then
\* the session-state transitions, and only after both does any audio I/O
\* (playback write or capture read) take place.
\* ------------------------------------------------------------------------
HasOp(ops, op) == \E k \in 1..Len(ops) : ops[k] = op

PlaybackWrite == HasOp(i2sOps, "i2s_write_payload")
CaptureRead == HasOp(i2sOps, "i2s_read")

NextPhase(p) ==
    CASE p = "net" -> "serial"
      [] p = "serial" -> "dbg"
      [] p = "dbg" -> "spk"
      [] p = "spk" -> "button"
      [] p = "button" -> "audio"
      [] p = "audio" -> "net"

SessionPhases == {"serial", "dbg", "spk", "button"}

\* C15 as stated: every audio I/O of an iteration is done by its last phase,
\* after the network phase and the session-state phases.
C15_AudioIOLast ==
    [][ (PlaybackWrite' \/ CaptureRead') => pc = "audio" ]_vars

\* C15, amended: the phases of an iteration run in the order network,
\* session-state transitions, capture; the connection flag changes only in
\* the network phase, the transmission flags only in the session-state
\* phases, the capture read is done only by the last phase, and the playback
\* write is done inside the network phase, by the transport callback.
C15_PhasesOrdered ==
    [][ /\ pc' = NextPhase(pc)
        /\ isConnected' # isConnected => pc = "net"
        /\ <<isTransmitting, debugTransmitting, buttonPressed>>'
              # <<isTransmitting, debugTransmitting, buttonPressed>>
           => pc \in SessionPhases
        /\ CaptureRead' => pc = "audio"
        /\ (binSent' > 0) => pc = "audio"
        /\ PlaybackWrite' => (pc = "net" /\ wsEvent'.type = "BIN")
      ]_vars

\* an iteration in which a frame was played by the network phase, the button
\* phase then started a transmission, and the capture is still to come
C15_Witness ==
    /\ pc = "audio"
    /\ wsEvent.type = "BIN"
    /\ lastAudioReceived = now
    /\ isTransmitting
    /\ StartSent

\* ------------------------------------------------------------------------
\* C14: the two retry loops are decoupled. A session reconnect is attempted
\* only in an iteration where the association is up and the session is not
\* connected, more than RECONNECT_DELAY after the previous one, and never
\* together with a re-association; a re-association is attempted only in an
\* iteration where the association is down, more than RECONNECT_DELAY after
\* the previous one.
\* ------------------------------------------------------------------------
SessionAttempt == lastReconnect' # lastReconnect
WiFiAttempt == lastWiFiReconnect' # lastWiFiReconnect

C14_RetryLoopsDecoupled ==
    [][ /\ SessionAttempt =>
             /\ pc = "net" /\ wifiUp' /\ ~isConnected'
             /\ now - lastReconnect > RECONNECT_DELAY
             /\ lastReconnect' = now
             /\ ~WiFiAttempt
        /\ WiFiAttempt =>
             /\ pc = "net" /\ ~wifiUp'
             /\ now - lastWiFiReconnect > RECONNECT_DELAY
             /\ lastWiFiReconnect' >= now
             /\ ~SessionAttempt
        /\ (pc = "net" /\ wifiUp') => ~WiFiAttempt
        /\ (pc = "net" /\ ~wifiUp') => ~SessionAttempt
      ]_vars

\* exactly RECONNECT_DELAY after a session reconnect the session is still
\* down with the association up: no second attempt was made, and no
\* re-association has ever been attempted
C14_Witness ==
    /\ pc = "serial"
    /\ wifiUp /\ ~isConnected
    /\ lastReconnect = RECONNECT_DELAY + 1
    /\ now = lastReconnect + RECONNECT_DELAY
    /\ lastWiFiReconnect = 0

=============================================================================
